---- MODULE Spec2Model ----
(***************************************************************************)
(* Collector discovery of the target allocator: Client.Watch bootstraps a *)
(* map of collectors from a pod listing, hands it to the callback fn, and *)
(* then keeps it current from a sequence of bounded-lifetime watch         *)
(* sessions (restartWatch / runWatch) until Close() or a failed            *)
(* subscription ends the loop.                                             *)
(***************************************************************************)
EXTENDS Integers, Sequences, FiniteSets, TLC

\* Bounds of the environment: events the API server sends in one run, and
\* watch subscriptions it accepts in one run.
MaxEvents == 2
MaxSessions == 2

\* Pod names of the namespace that match the label selector, in the order
\* in which the API server lists them.
NameOrder == <<"p1", "p2">>

Names == { NameOrder[i] : i \in DOMAIN NameOrder }

\* event.Object of an event that carries no *v1.Pod (a *metav1.Status).
Status == "Status"

NoEvent == [type |-> "NONE", obj |-> "none"]

PodEvents == [type : {"ADDED", "MODIFIED", "DELETED"}, obj : Names]

Events == PodEvents \cup {[type |-> "ERROR", obj |-> Status]}

\* One item of pods.Items: its name and whether its DeletionTimestamp is set.
PodT == [name : Names, deleting : BOOLEAN]

\* The listing of the pods named in present, those in deleting being deleted.
ListingOf(present, deleting) ==
    LET ns == SelectSeq(NameOrder, LAMBDA n : n \in present)
    IN  [i \in DOMAIN ns |-> [name |-> ns[i], deleting |-> ns[i] \in deleting]]

\* Listings the API server can return: pods of distinct names, by name.
Listings ==
    { ListingOf(present, deleting) :
        present \in SUBSET Names, deleting \in SUBSET Names }

VARIABLES
    proc,          \* the process: "running", "exited" (os.Exit), "panicked"
                   \* (close of a closed channel), "fnPanicked" (panic in fn)
    pc,            \* where the goroutine that runs Watch stands
    result,        \* what Watch returned: "none" (not yet), "nil", "error"
    listErr,       \* the bootstrap List returned an error
    closed,        \* k.close has been closed
    closeAt,       \* history: where Watch stood at the first Close()
    cancelAt,      \* where Watch stood when the caller's ctx was cancelled
    deadline,      \* the session's context.WithTimeout deadline has passed
    pods,          \* pods.Items as returned by the bootstrap List, while
                   \* Watch still reads it
    collectorMap,  \* collectorMap: pod name -> *allocation.Collector
    queue,         \* events waiting on watcher.ResultChan()
    chanClosed,    \* the producer closed watcher.ResultChan()
    gauge,         \* collectorsDiscovered
    sessions,      \* watch subscriptions established so far
    produced,      \* events sent by the API server so far
    nCallbacks,    \* calls of fn so far
    cbArg,         \* history: the contents of the map at the last call of fn
    firstCb,       \* history: the contents of the map at the first call of fn
    applied,       \* history: names alive by bootstrap and the events consumed
    lastEv,        \* history: the last event runWatch consumed
    repeated,      \* history: lastEv is also the event consumed before it
    endedBy,       \* history: why the last ended session ended
    dropped,       \* history: ADDED and DELETED events left unread when the
                   \* last session ended
    ended,         \* history: sessions whose runWatch has returned
    cluster,       \* the pods that exist in the cluster and match the selector
    auto           \* the state of package autodetect, a record of:
                   \*   discovery: what the discovery client answers
                   \*   prom: what PrometheusCRsAvailability returned
                   \*   detectors: what each detector of AutoDetect returns
                   \*   config: the config.Config given to ApplyAutoDetect
                   \*   configBefore: history, config at that call
                   \*   applyRet: what ApplyAutoDetect returned: "none" (not
                   \*     called), "nil", or the detector whose error it is

vars == <<proc, pc, result, listErr, closed, closeAt, cancelAt, deadline, pods,
          collectorMap, queue, chanClosed, gauge, sessions, produced,
          nCallbacks, cbArg, firstCb, applied, lastEv, repeated, endedBy,
          dropped, ended, cluster, auto>>

lifeVars == <<proc, result, listErr>>

envVars == <<closed, closeAt, cancelAt, queue, chanClosed, produced>>

histVars ==
    <<cbArg, firstCb, applied, lastEv, repeated, endedBy, dropped, ended>>

\* What no step of Watch and no caller of the client writes.
restVars == <<cluster, auto>>

discovery == auto.discovery

prom == auto.prom

detectors == auto.detectors

config == auto.config

configBefore == auto.configBefore

applyRet == auto.applyRet

----------------------------------------------------------------------------
\* Data

\* allocation.NewCollector(name)
NewCollector(name) == [Name |-> name]

EmptyMap == [k \in {} |-> NewCollector(k)]

\* Mutant of Put: the Collector is made from the first name known, not from
\* the name it is stored under.
PutFirstName(m, name) ==
    [k \in DOMAIN m \cup {name} |->
        IF k = name THEN NewCollector(NameOrder[1]) ELSE m[k]]

\* collectorMap[name] = allocation.NewCollector(name)
Put(m, name) ==
    [k \in DOMAIN m \cup {name} |->
        IF k = name THEN NewCollector(name) ELSE m[k]]

\* Mutant of Delete: the entry stays.
DeleteNothing(m, name) == m

\* delete(collectorMap, name)
Delete(m, name) == [k \in DOMAIN m \ {name} |-> m[k]]

\* Mutant of Alive: the deletion timestamp is not looked at.
AliveAlways(pod) == TRUE

\* GetDeletionTimestamp() == nil
Alive(pod) == ~pod.deleting

RECURSIVE BuildMap(_, _, _)
\* for i := range pods.Items { ... } from index i on, into m
BuildMap(items, i, m) ==
    IF i > Len(items) THEN m
    ELSE BuildMap(items, i + 1,
                  IF Alive(items[i]) THEN Put(m, items[i].name) ELSE m)

\* Mutant of ApplyEvent: an ADDED for a name already in the map removes it.
ApplyEventFlip(m, ev) ==
    CASE ev.type = "ADDED" /\ ev.obj \notin DOMAIN m -> Put(m, ev.obj)
      [] ev.type = "ADDED" /\ ev.obj \in DOMAIN m -> Delete(m, ev.obj)
      [] ev.type = "DELETED" -> Delete(m, ev.obj)
      [] OTHER -> m

\* switch event.Type of runWatch
ApplyEvent(m, ev) ==
    CASE ev.type = "ADDED" -> Put(m, ev.obj)
      [] ev.type = "DELETED" -> Delete(m, ev.obj)
      [] OTHER -> m

\* pod, ok := event.Object.(*v1.Pod)
IsPod(ev) == ev.obj \in Names

\* Mutant of GaugeSet: the size is added to the gauge.
GaugeAdd(g, m) == g + Cardinality(DOMAIN m)

\* collectorsDiscovered.Set(float64(len(collectorMap))), the gauge being g
GaugeSet(g, m) == Cardinality(DOMAIN m)

ctxCancelled == cancelAt # "none"

\* <-ctx.Done() of the session's ctx: the parent's cancellation or the timeout
ctxDone == ctxCancelled \/ deadline

\* Where Watch stands, as the callers of Close and cancel see it.
Phase == CASE pc = "idle" -> "before"
           [] pc = "returned" -> "after"
           [] OTHER -> "during"

----------------------------------------------------------------------------
\* Auto-detection (package autodetect)

\* prometheus.Available, prometheus.NotAvailable and their likes
Availabilities == {"Available", "NotAvailable"}

PrometheusGroup == "monitoring.coreos.com"

\* Names of the API groups the server can list.
GroupNames == {PrometheusGroup, "route.openshift.io"}

\* Versions a group can list, in the order listed.
VersionOrder == <<"v1", "v1alpha1">>

\* resource.Kind of the resources of a group version
Kinds == {"ServiceMonitor", "PodMonitor", "Probe"}

\* What ServerResourcesForGroupVersion answers for one group version: an
\* error, or a list of resources, of which the kinds matter.
ResourceAnswers ==
    [err : {FALSE}, kinds : SUBSET Kinds] \cup {[err |-> TRUE, kinds |-> {}]}

\* apiGroups[i].Versions, each version with the answer for it.
VersionLists ==
    UNION { [1..n -> ResourceAnswers] : n \in 0..Len(VersionOrder) }

\* apiList.Groups: groups of distinct names, in any order.
GroupLists ==
    { gs \in UNION { [1..n -> [Name : GroupNames, Versions : VersionLists]] :
                       n \in 0..Cardinality(GroupNames) } :
        \A i, j \in DOMAIN gs : gs[i].Name = gs[j].Name => i = j }

\* What the discovery client answers: ServerGroups fails, or lists groups.
Discoveries ==
    [err : {FALSE}, Groups : GroupLists] \cup {[err |-> TRUE, Groups |-> <<>>]}

\* The errors PrometheusCRsAvailability can return: nil, that of ServerGroups,
\* or that of ServerResourcesForGroupVersion for the version listed at `at`.
NoErr == [op |-> "nil", at |-> 0]

GroupsErr == [op |-> "ServerGroups", at |-> 0]

ResourcesErr(j) == [op |-> "ServerResourcesForGroupVersion", at |-> j]

\* PrometheusCRsAvailability has not been called.
NotCalled == [avail |-> "none", err |-> NoErr]

\* Mutant of IsPrometheusGroup: the name of the group is not looked at.
IsAnyGroup(g) == TRUE

\* apiGroups[i].Name == "monitoring.coreos.com"
IsPrometheusGroup(g) == g.Name = PrometheusGroup

\* for _, resource := range resources.APIResources { ... }
ScanResources(kinds, found) ==
    [sm |-> found.sm \/ "ServiceMonitor" \in kinds,
     pm |-> found.pm \/ "PodMonitor" \in kinds]

RECURSIVE ScanVersions(_, _, _)
\* for _, version := range apiGroups[i].Versions { ... } from version j on
ScanVersions(versions, j, found) ==
    IF j > Len(versions) THEN [err |-> NoErr, found |-> found]
    ELSE IF versions[j].err THEN [err |-> ResourcesErr(j), found |-> found]
    ELSE ScanVersions(versions, j + 1,
                      ScanResources(versions[j].kinds, found))

RECURSIVE ScanGroups(_, _, _)
\* for i := 0; i < len(apiGroups); i++ { ... } from group i on
ScanGroups(groups, i, found) ==
    IF i > Len(groups) THEN [err |-> NoErr, found |-> found]
    ELSE IF IsPrometheusGroup(groups[i])
    THEN LET r == ScanVersions(groups[i].Versions, 1, found)
         IN  IF r.err # NoErr THEN r ELSE ScanGroups(groups, i + 1, r.found)
    ELSE ScanGroups(groups, i + 1, found)

PrometheusCRsAvailability(d) ==
    IF d.err THEN [avail |-> "NotAvailable", err |-> GroupsErr]
    ELSE LET r == ScanGroups(d.Groups, 1, [sm |-> FALSE, pm |-> FALSE])
         IN  IF r.err # NoErr THEN [avail |-> "NotAvailable", err |-> r.err]
             ELSE IF r.found.sm /\ r.found.pm
             THEN [avail |-> "Available", err |-> NoErr]
             ELSE [avail |-> "NotAvailable", err |-> NoErr]

\* The detectors of the AutoDetect interface, in the order ApplyAutoDetect
\* calls them.
DetectorOrder ==
    <<"OpenShiftRoutesAvailability", "PrometheusCRsAvailability",
      "RBACPermissions", "CertManagerAvailability",
      "TargetAllocatorAvailability", "CollectorAvailability">>

DetectorNames == { DetectorOrder[k] : k \in DOMAIN DetectorOrder }

\* The field of config.Config that holds what the detector returned.
FieldOf(d) ==
    CASE d = "OpenShiftRoutesAvailability" -> "OpenShiftRoutesAvailability"
      [] d = "PrometheusCRsAvailability" -> "PrometheusCRAvailability"
      [] d = "RBACPermissions" -> "CreateRBACPermissions"
      [] d = "CertManagerAvailability" -> "CertManagerAvailability"
      [] d = "TargetAllocatorAvailability" -> "TargetAllocatorAvailability"
      [] d = "CollectorAvailability" -> "CollectorAvailability"

Fields == { FieldOf(d) : d \in DetectorNames }

\* What a detector returns: an availability, and an error or nil.
Answers == [avail : Availabilities, err : BOOLEAN]

\* config.New(): every availability is NotAvailable.
NewConfig == [f \in Fields |-> "NotAvailable"]

\* The configurations ApplyAutoDetect is given here: the new one, and one
\* whose fields all read Available.
Configs == { [f \in Fields |-> a] : a \in Availabilities }

\* Mutant of ReturnsError: every detector's error is returned.
ReturnsErrorAlways(d) == TRUE

\* ApplyAutoDetect returns the error of detector d (and only logs the others).
ReturnsError(d) ==
    d \in {"OpenShiftRoutesAvailability", "PrometheusCRsAvailability",
           "TargetAllocatorAvailability", "CollectorAvailability"}

RECURSIVE ApplyFrom(_, _, _)
\* ApplyAutoDetect from its k-th detector on, the configuration being c:
\* the configuration it leaves and the error it returns ("nil", or the name
\* of the detector whose error it is).
ApplyFrom(det, c, k) ==
    IF k > Len(DetectorOrder) THEN [config |-> c, err |-> "nil"]
    ELSE LET d == DetectorOrder[k]
         IN  IF det[d].err /\ ReturnsError(d)
             THEN [config |-> c, err |-> d]
             ELSE ApplyFrom(det, [c EXCEPT ![FieldOf(d)] = det[d].avail],
                            k + 1)

ApplyAutoDetect(det, c) == ApplyFrom(det, c, 1)

----------------------------------------------------------------------------
\* The state before Watch is called, the cluster apart.
InitWatch ==
    /\ proc = "running"
    /\ pc = "idle"
    /\ result = "none"
    /\ listErr = FALSE
    /\ closed = FALSE
    /\ closeAt = "none"
    /\ cancelAt = "none"
    /\ deadline = FALSE
    /\ pods = <<>>
    /\ collectorMap = EmptyMap
    /\ queue = <<>>
    /\ chanClosed = FALSE
    /\ gauge = 0
    /\ sessions = 0
    /\ produced = 0
    /\ nCallbacks = 0
    /\ cbArg = EmptyMap
    /\ firstCb = EmptyMap
    /\ applied = {}
    /\ lastEv = NoEvent
    /\ repeated = FALSE
    /\ endedBy = "none"
    /\ dropped = 0
    /\ ended = 0

\* Package autodetect before any call: no discovery answer is looked at, and
\* the config is the one config.New() makes.
AutoIdle ==
    [discovery |-> [err |-> FALSE, Groups |-> <<>>],
     prom |-> NotCalled,
     detectors |->
         [d \in DetectorNames |-> [avail |-> "NotAvailable", err |-> FALSE]],
     config |-> NewConfig,
     configBefore |-> NewConfig,
     applyRet |-> "none"]

Init == InitWatch /\ cluster = {} /\ auto = AutoIdle

----------------------------------------------------------------------------
\* The goroutine that runs Watch

\* Mutant of WatchCall: Watch looks at the close channel first and returns
\* nil at once when it is closed.
WatchCallChecksClose ==
    /\ proc = "running"
    /\ pc = "idle"
    /\ collectorMap' = EmptyMap
    /\ IF closed
       THEN pc' = "returned" /\ result' = "nil"
       ELSE pc' = "list" /\ UNCHANGED result
    /\ UNCHANGED <<proc, listErr, deadline, pods, gauge, sessions,
                   nCallbacks>>
    /\ UNCHANGED <<envVars, histVars>>
    /\ UNCHANGED restVars

\* Watch is called: collectorMap := map[string]*allocation.Collector{}
WatchCall ==
    /\ proc = "running"
    /\ pc = "idle"
    /\ pc' = "list"
    /\ collectorMap' = EmptyMap
    /\ UNCHANGED <<deadline, pods, gauge, sessions, nCallbacks>>
    /\ UNCHANGED <<lifeVars, envVars, histVars>>
    /\ UNCHANGED restVars

\* Pods(ns).List returns an error: os.Exit(1)
ListFails ==
    /\ proc = "running"
    /\ pc = "list"
    /\ listErr' = TRUE
    /\ proc' = "exited"
    /\ UNCHANGED <<pc, result, deadline, pods, collectorMap, gauge, sessions,
                   nCallbacks>>
    /\ UNCHANGED <<envVars, histVars>>
    /\ UNCHANGED restVars

\* Mutant of ListReturns: fn is called only with a map that is not empty.
ListReturnsSkipsEmpty(items) ==
    /\ proc = "running"
    /\ pc = "list"
    /\ ~ctxCancelled
    /\ pods' = items
    /\ collectorMap' = BuildMap(items, 1, collectorMap)
    /\ applied' = DOMAIN collectorMap'
    /\ IF DOMAIN collectorMap' = {}
       THEN /\ pc' = "open"
            /\ UNCHANGED <<nCallbacks, cbArg, firstCb>>
       ELSE /\ pc' = "fnBoot"
            /\ nCallbacks' = nCallbacks + 1
            /\ cbArg' = collectorMap'
            /\ firstCb' = collectorMap'
    /\ UNCHANGED <<deadline, gauge, sessions, lastEv, repeated, endedBy,
                   dropped, ended>>
    /\ UNCHANGED <<lifeVars, envVars>>
    /\ UNCHANGED restVars

\* Pods(ns).List returns items: the map is built from them and fn is called.
\* A List under a cancelled ctx returns the ctx's error (ListFails).
ListReturns(items) ==
    /\ proc = "running"
    /\ pc = "list"
    /\ ~ctxCancelled
    /\ pods' = items
    /\ collectorMap' = BuildMap(items, 1, collectorMap)
    /\ pc' = "fnBoot"
    /\ nCallbacks' = nCallbacks + 1
    /\ cbArg' = collectorMap'
    /\ firstCb' = collectorMap'
    /\ applied' = DOMAIN collectorMap'
    /\ UNCHANGED <<deadline, gauge, sessions, lastEv, repeated, endedBy,
                   dropped, ended>>
    /\ UNCHANGED <<lifeVars, envVars>>
    /\ UNCHANGED restVars

\* fn(collectorMap) of Watch returns; the loop calls restartWatch, which
\* derives the session's ctx with a fresh timeout. Watch does not read pods
\* again after the bootstrap loop, and the model lets go of it here.
FnBootReturns ==
    /\ proc = "running"
    /\ pc = "fnBoot"
    /\ pc' = "open"
    /\ deadline' = FALSE
    /\ pods' = <<>>
    /\ UNCHANGED <<collectorMap, gauge, sessions, nCallbacks>>
    /\ UNCHANGED <<lifeVars, envVars, histVars>>
    /\ UNCHANGED restVars

\* Mutant of RestartWatchFails: the error of Pods.Watch is handed up, and
\* Watch returns it.
RestartWatchFailsReturnsErr ==
    /\ proc = "running"
    /\ pc = "open"
    /\ pc' = "returned"
    /\ result' = "error"
    /\ UNCHANGED <<proc, listErr, deadline, pods, collectorMap, gauge,
                   sessions, nCallbacks>>
    /\ UNCHANGED <<envVars, histVars>>
    /\ UNCHANGED restVars

\* Pods(ns).Watch returns an error: restartWatch returns false, Watch nil.
\* Under a ctx that is done it can only fail.
RestartWatchFails ==
    /\ proc = "running"
    /\ pc = "open"
    /\ pc' = "returned"
    /\ result' = "nil"
    /\ UNCHANGED <<proc, listErr, deadline, pods, collectorMap, gauge,
                   sessions, nCallbacks>>
    /\ UNCHANGED <<envVars, histVars>>
    /\ UNCHANGED restVars

\* Mutant of RestartWatchOpens: every session starts from an empty map.
RestartWatchOpensCleared ==
    /\ proc = "running"
    /\ pc = "open"
    /\ ~ctxDone
    /\ sessions < MaxSessions
    /\ sessions' = sessions + 1
    /\ queue' = <<>>
    /\ chanClosed' = FALSE
    /\ collectorMap' = EmptyMap
    /\ gauge' = GaugeSet(gauge, collectorMap')
    /\ pc' = "select"
    /\ UNCHANGED <<deadline, pods, nCallbacks, closed, closeAt, cancelAt,
                   produced>>
    /\ UNCHANGED <<lifeVars, histVars>>
    /\ UNCHANGED restVars

\* Mutant of RestartWatchOpens: runWatch is started on its own goroutine and
\* restartWatch returns true at once, so the loop of Watch opens the next
\* session while this one is still read.
RestartWatchOpensAsync ==
    /\ proc = "running"
    /\ pc = "open"
    /\ ~ctxDone
    /\ sessions < MaxSessions
    /\ sessions' = sessions + 1
    /\ queue' = <<>>
    /\ chanClosed' = FALSE
    /\ gauge' = GaugeSet(gauge, collectorMap)
    /\ pc' = "open"
    /\ UNCHANGED <<deadline, pods, collectorMap, nCallbacks, closed, closeAt,
                   cancelAt, produced>>
    /\ UNCHANGED <<lifeVars, histVars>>
    /\ UNCHANGED restVars

\* Pods(ns).Watch returns a watcher: runWatch starts on its ResultChan and
\* sets the gauge before its first select.
RestartWatchOpens ==
    /\ proc = "running"
    /\ pc = "open"
    /\ ~ctxDone
    /\ sessions < MaxSessions
    /\ sessions' = sessions + 1
    /\ queue' = <<>>
    /\ chanClosed' = FALSE
    /\ gauge' = GaugeSet(gauge, collectorMap)
    /\ pc' = "select"
    /\ UNCHANGED <<deadline, pods, collectorMap, nCallbacks, closed, closeAt,
                   cancelAt, produced>>
    /\ UNCHANGED <<lifeVars, histVars>>
    /\ UNCHANGED restVars

RECURSIVE Changes(_)
\* The number of ADDED and DELETED events in q.
Changes(q) ==
    IF q = <<>> THEN 0
    ELSE (IF Head(q).type \in {"ADDED", "DELETED"} THEN 1 ELSE 0)
         + Changes(Tail(q))

\* runWatch returns "" and restartWatch true: the loop of Watch calls
\* restartWatch again, on a new ctx; what the old channel still held is lost.
SessionEnds(why, unread) ==
    /\ pc' = "open"
    /\ deadline' = FALSE
    /\ endedBy' = why
    /\ dropped' = Changes(unread)
    /\ ended' = ended + 1
    /\ queue' = <<>>
    /\ chanClosed' = FALSE
    /\ UNCHANGED <<pods, gauge, sessions, closed, closeAt, cancelAt, produced>>
    /\ UNCHANGED lifeVars

\* case <-k.close: runWatch returns "kubernetes client closed", Watch nil
RunWatchClose ==
    /\ proc = "running"
    /\ pc = "select"
    /\ closed
    /\ pc' = "returned"
    /\ result' = "nil"
    /\ endedBy' = "closed"
    /\ dropped' = Changes(queue)
    /\ ended' = ended + 1
    /\ UNCHANGED <<proc, listErr, deadline, pods, collectorMap, gauge,
                   sessions, nCallbacks>>
    /\ UNCHANGED <<cbArg, firstCb, applied, lastEv, repeated>>
    /\ UNCHANGED envVars
    /\ UNCHANGED restVars

\* Mutant of RunWatchDone: a done ctx is reported as a reason to stop, and
\* Watch returns.
RunWatchDoneStops ==
    /\ proc = "running"
    /\ pc = "select"
    /\ ctxDone
    /\ pc' = "returned"
    /\ result' = "nil"
    /\ endedBy' = IF deadline THEN "timeout" ELSE "cancelled"
    /\ dropped' = Changes(queue)
    /\ ended' = ended + 1
    /\ UNCHANGED <<proc, listErr, deadline, pods, collectorMap, gauge,
                   sessions, nCallbacks>>
    /\ UNCHANGED <<cbArg, firstCb, applied, lastEv, repeated>>
    /\ UNCHANGED envVars
    /\ UNCHANGED restVars

\* case <-ctx.Done()
RunWatchDone ==
    /\ proc = "running"
    /\ pc = "select"
    /\ ctxDone
    /\ SessionEnds(IF deadline THEN "timeout" ELSE "cancelled", queue)
    /\ UNCHANGED <<collectorMap, nCallbacks>>
    /\ UNCHANGED <<cbArg, firstCb, applied, lastEv, repeated>>
    /\ UNCHANGED restVars

\* Mutant of RunWatchChanClosed: a closed channel is reported as terminal.
RunWatchChanClosedStops ==
    /\ proc = "running"
    /\ pc = "select"
    /\ queue = <<>>
    /\ chanClosed
    /\ pc' = "returned"
    /\ result' = "nil"
    /\ endedBy' = "chanClosed"
    /\ dropped' = 0
    /\ ended' = ended + 1
    /\ UNCHANGED <<proc, listErr, deadline, pods, collectorMap, gauge,
                   sessions, nCallbacks>>
    /\ UNCHANGED <<cbArg, firstCb, applied, lastEv, repeated>>
    /\ UNCHANGED envVars
    /\ UNCHANGED restVars

\* case event, ok := <-c with !ok: the channel is closed and drained
RunWatchChanClosed ==
    /\ proc = "running"
    /\ pc = "select"
    /\ queue = <<>>
    /\ chanClosed
    /\ SessionEnds("chanClosed", queue)
    /\ UNCHANGED <<collectorMap, nCallbacks>>
    /\ UNCHANGED <<cbArg, firstCb, applied, lastEv, repeated>>
    /\ UNCHANGED restVars

\* The names alive after ev, given those alive before it.
AppliedAfter(alive, ev) ==
    CASE ev.type = "ADDED" -> alive \cup {ev.obj}
      [] ev.type = "DELETED" -> alive \ {ev.obj}
      [] OTHER -> alive

\* Mutant of RunWatchEvent: fn is called after ADDED and DELETED only; a
\* MODIFIED event goes straight back to the select.
RunWatchEventSkipsModified ==
    /\ proc = "running"
    /\ pc = "select"
    /\ queue # <<>>
    /\ lastEv' = Head(queue)
    /\ repeated' = (Head(queue) = lastEv)
    /\ IF ~IsPod(Head(queue))
       THEN /\ SessionEnds("notPod", Tail(queue))
            /\ UNCHANGED <<collectorMap, nCallbacks, cbArg, firstCb, applied>>
       ELSE /\ collectorMap' = ApplyEvent(collectorMap, Head(queue))
            /\ queue' = Tail(queue)
            /\ IF Head(queue).type = "MODIFIED"
               THEN /\ pc' = "select"
                    /\ UNCHANGED <<nCallbacks, cbArg>>
               ELSE /\ pc' = "fnEvent"
                    /\ nCallbacks' = nCallbacks + 1
                    /\ cbArg' = collectorMap'
            /\ applied' = AppliedAfter(applied, Head(queue))
            /\ UNCHANGED <<deadline, pods, gauge, sessions, closed, closeAt,
                           cancelAt, chanClosed, produced, firstCb, endedBy,
                           dropped, ended>>
            /\ UNCHANGED lifeVars
    /\ UNCHANGED restVars

\* Mutant of RunWatchEvent: a payload that is no pod is skipped, and the
\* session goes on with the next event of the same channel.
RunWatchEventSkipsNonPod ==
    /\ proc = "running"
    /\ pc = "select"
    /\ queue # <<>>
    /\ lastEv' = Head(queue)
    /\ repeated' = (Head(queue) = lastEv)
    /\ queue' = Tail(queue)
    /\ IF ~IsPod(Head(queue))
       THEN /\ pc' = "select"
            /\ UNCHANGED <<collectorMap, nCallbacks, cbArg, applied>>
       ELSE /\ collectorMap' = ApplyEvent(collectorMap, Head(queue))
            /\ pc' = "fnEvent"
            /\ nCallbacks' = nCallbacks + 1
            /\ cbArg' = collectorMap'
            /\ applied' = AppliedAfter(applied, Head(queue))
    /\ UNCHANGED <<deadline, pods, gauge, sessions, closed, closeAt,
                   cancelAt, chanClosed, produced, firstCb, endedBy,
                   dropped, ended>>
    /\ UNCHANGED lifeVars
    /\ UNCHANGED restVars

\* Mutant of RunWatchEvent: fn is started on a goroutine of its own, and
\* the loop goes back to the select without waiting for it.
RunWatchEventAsync ==
    /\ proc = "running"
    /\ pc = "select"
    /\ queue # <<>>
    /\ lastEv' = Head(queue)
    /\ repeated' = (Head(queue) = lastEv)
    /\ IF ~IsPod(Head(queue))
       THEN /\ SessionEnds("notPod", Tail(queue))
            /\ UNCHANGED <<collectorMap, nCallbacks, cbArg, firstCb, applied>>
       ELSE /\ collectorMap' = ApplyEvent(collectorMap, Head(queue))
            /\ queue' = Tail(queue)
            /\ pc' = "select"
            /\ nCallbacks' = nCallbacks + 1
            /\ cbArg' = collectorMap'
            /\ applied' = AppliedAfter(applied, Head(queue))
            /\ UNCHANGED <<deadline, pods, gauge, sessions, closed, closeAt,
                           cancelAt, chanClosed, produced, firstCb, endedBy,
                           dropped, ended>>
            /\ UNCHANGED lifeVars
    /\ UNCHANGED restVars

\* case event, ok := <-c with ok: a payload that is no pod ends the session;
\* a pod event goes through the switch and fn is called with the map.
RunWatchEvent ==
    /\ proc = "running"
    /\ pc = "select"
    /\ queue # <<>>
    /\ lastEv' = Head(queue)
    /\ repeated' = (Head(queue) = lastEv)
    /\ IF ~IsPod(Head(queue))
       THEN /\ SessionEnds("notPod", Tail(queue))
            /\ UNCHANGED <<collectorMap, nCallbacks, cbArg, firstCb, applied>>
       ELSE /\ collectorMap' = ApplyEvent(collectorMap, Head(queue))
            /\ queue' = Tail(queue)
            /\ pc' = "fnEvent"
            /\ nCallbacks' = nCallbacks + 1
            /\ cbArg' = collectorMap'
            /\ applied' = AppliedAfter(applied, Head(queue))
            /\ UNCHANGED <<deadline, pods, gauge, sessions, closed, closeAt,
                           cancelAt, chanClosed, produced, firstCb, endedBy,
                           dropped, ended>>
            /\ UNCHANGED lifeVars
    /\ UNCHANGED restVars

\* fn(collectorMap) of runWatch returns; the loop sets the gauge and selects.
FnEventReturns ==
    /\ proc = "running"
    /\ pc = "fnEvent"
    /\ pc' = "select"
    /\ gauge' = GaugeSet(gauge, collectorMap)
    /\ UNCHANGED <<deadline, pods, collectorMap, sessions, nCallbacks>>
    /\ UNCHANGED <<lifeVars, envVars, histVars>>
    /\ UNCHANGED restVars

\* fn(collectorMap) panics, in Watch or in runWatch: neither recovers, so
\* the panic unwinds the goroutine and takes the process down.
FnPanics ==
    /\ proc = "running"
    /\ pc \in {"fnBoot", "fnEvent"}
    /\ proc' = "fnPanicked"
    /\ UNCHANGED <<pc, result, listErr, deadline, pods, collectorMap, gauge,
                   sessions, nCallbacks>>
    /\ UNCHANGED <<envVars, histVars>>
    /\ UNCHANGED restVars

\* What a callee that kept the argument of its first call reads from it now:
\* fn is given the map itself, and Watch and runWatch go on writing to it.
RetainedFirstArg == collectorMap

----------------------------------------------------------------------------
\* The callers of the client, the clock and the API server

\* Close(): close(k.close); closing a closed channel panics.
Close ==
    /\ proc = "running"
    /\ IF closed
       THEN /\ proc' = "panicked"
            /\ UNCHANGED <<closed, closeAt>>
       ELSE /\ closed' = TRUE
            /\ closeAt' = Phase
            /\ UNCHANGED proc
    /\ UNCHANGED <<pc, result, listErr, cancelAt, deadline, pods, collectorMap,
                   queue, chanClosed, gauge, sessions, produced, nCallbacks>>
    /\ UNCHANGED histVars
    /\ UNCHANGED restVars

\* The caller cancels the ctx it gave to Watch.
CancelCtx ==
    /\ proc = "running"
    /\ pc # "returned"
    /\ cancelAt = "none"
    /\ cancelAt' = Phase
    /\ UNCHANGED <<pc, closed, closeAt, deadline, pods, collectorMap, queue,
                   chanClosed, gauge, sessions, produced, nCallbacks>>
    /\ UNCHANGED <<lifeVars, histVars>>
    /\ UNCHANGED restVars

\* watcherTimeout passes for the ctx of the current restartWatch.
DeadlineExpires ==
    /\ proc = "running"
    /\ pc \in {"open", "select", "fnEvent"}
    /\ ~deadline
    /\ deadline' = TRUE
    /\ UNCHANGED <<pc, pods, collectorMap, gauge, sessions, nCallbacks>>
    /\ UNCHANGED <<lifeVars, envVars, histVars>>
    /\ UNCHANGED restVars

\* The API server sends an event on the current session's channel; the
\* request that carries the stream lives as long as the session's ctx.
SendEvent(ev) ==
    /\ proc = "running"
    /\ pc \in {"select", "fnEvent"}
    /\ ~chanClosed
    /\ ~ctxDone
    /\ produced < MaxEvents
    /\ queue' = Append(queue, ev)
    /\ produced' = produced + 1
    /\ UNCHANGED <<pc, closed, closeAt, cancelAt, deadline, pods, collectorMap,
                   chanClosed, gauge, sessions, nCallbacks>>
    /\ UNCHANGED <<lifeVars, histVars>>
    /\ UNCHANGED restVars

\* The API server or the network closes the current session's channel.
ProducerCloses ==
    /\ proc = "running"
    /\ pc \in {"select", "fnEvent"}
    /\ ~chanClosed
    /\ chanClosed' = TRUE
    /\ UNCHANGED <<pc, closed, closeAt, cancelAt, deadline, pods, collectorMap,
                   queue, gauge, sessions, produced, nCallbacks>>
    /\ UNCHANGED <<lifeVars, histVars>>
    /\ UNCHANGED restVars

----------------------------------------------------------------------------
WatchStep ==
    \/ WatchCall
    \/ ListFails
    \/ \E items \in Listings : ListReturns(items)
    \/ FnBootReturns
    \/ RestartWatchFails
    \/ RestartWatchOpens
    \/ RunWatchClose
    \/ RunWatchDone
    \/ RunWatchChanClosed
    \/ RunWatchEvent
    \/ FnEventReturns

Next ==
    \/ WatchStep
    \/ Close
    \/ CancelCtx
    \/ DeadlineExpires
    \/ \E ev \in Events : SendEvent(ev)
    \/ ProducerCloses

Spec == Init /\ [][Next]_vars

\* Spec has the runs in which every call of fn returns. SpecFn adds those in
\* which a call of fn panics: each is a run of Spec up to that call, and the
\* death of the process after it.
NextFn == Next \/ FnPanics

SpecFn == Init /\ [][NextFn]_vars

----------------------------------------------------------------------------
\* The cluster behind the API server. Spec leaves the server's answers free;
\* SpecGap ties them to the pods that exist: the List returns them, and a pod
\* that appears or goes is reported to the stream that is open at that
\* moment, and to no other.

\* The stream of the current session is open: Watch is in runWatch, and the
\* request behind watcher.ResultChan() has neither ended nor been cancelled.
StreamOpen == pc \in {"select", "fnEvent"} /\ ~chanClosed /\ ~ctxDone

\* Watch is between two sessions: runWatch has returned and restartWatch has
\* not yet got its watcher from Pods(ns).Watch(ctx, opts), whose opts carry
\* no resource version to resume from.
InGap == pc = "open" /\ sessions >= 1

\* The cluster becomes after, which ev reports: the open stream gets ev; in
\* the gap there is no stream to get it.
ClusterChanges(ev, after) ==
    /\ proc = "running"
    /\ cluster' = after
    /\ \/ /\ StreamOpen
          /\ produced < MaxEvents
          /\ queue' = Append(queue, ev)
          /\ produced' = produced + 1
       \/ /\ InGap
          /\ UNCHANGED <<queue, produced>>
    /\ UNCHANGED <<pc, closed, closeAt, cancelAt, deadline, pods, collectorMap,
                   chanClosed, gauge, sessions, nCallbacks>>
    /\ UNCHANGED <<lifeVars, histVars, auto>>

\* A pod that matches the selector is created.
PodAppears(n) ==
    /\ n \notin cluster
    /\ ClusterChanges([type |-> "ADDED", obj |-> n], cluster \cup {n})

\* A pod that matches the selector is removed.
PodGoes(n) ==
    /\ n \in cluster
    /\ ClusterChanges([type |-> "DELETED", obj |-> n], cluster \ {n})

InitGap == InitWatch /\ cluster \in SUBSET Names /\ auto = AutoIdle

NextGap ==
    \/ WatchCall
    \/ ListReturns(ListingOf(cluster, {}))
    \/ FnBootReturns
    \/ RestartWatchFails
    \/ RestartWatchOpens
    \/ RunWatchDone
    \/ RunWatchChanClosed
    \/ RunWatchEvent
    \/ FnEventReturns
    \/ DeadlineExpires
    \/ ProducerCloses
    \/ \E n \in Names : PodAppears(n)
    \/ \E n \in Names : PodGoes(n)

SpecGap == InitGap /\ [][NextGap]_vars

----------------------------------------------------------------------------
\* Calls of the autodetect package

\* What no call of the autodetect package writes.
watchVars ==
    <<proc, pc, result, listErr, closed, closeAt, cancelAt, deadline, pods,
      collectorMap, queue, chanClosed, gauge, sessions, produced, nCallbacks,
      histVars, cluster>>

\* a.PrometheusCRsAvailability() is called and returns.
CallPrometheusCRsAvailability ==
    /\ prom = NotCalled
    /\ auto' = [auto EXCEPT !.prom = PrometheusCRsAvailability(discovery)]
    /\ UNCHANGED watchVars

\* ApplyAutoDetect(autoDetect, c, logger) is called and returns.
CallApplyAutoDetect ==
    /\ applyRet = "none"
    /\ auto' = [auto EXCEPT
                   !.config = ApplyAutoDetect(detectors, config).config,
                   !.applyRet = ApplyAutoDetect(detectors, config).err]
    /\ UNCHANGED watchVars

InitProm ==
    /\ InitWatch
    /\ cluster = {}
    /\ auto \in { [AutoIdle EXCEPT !.discovery = d] : d \in Discoveries }

NextProm == CallPrometheusCRsAvailability

SpecProm == InitProm /\ [][NextProm]_vars

InitApply ==
    /\ InitWatch
    /\ cluster = {}
    /\ auto \in { [AutoIdle EXCEPT
                      !.detectors = det, !.config = c, !.configBefore = c] :
                    det \in [DetectorNames -> Answers], c \in Configs }

NextApply == CallApplyAutoDetect

SpecApply == InitApply /\ [][NextApply]_vars

----------------------------------------------------------------------------
\* Properties

\* The names of the listed pods with no deletion timestamp.
ListedAlive ==
    { pods[i].name : i \in { j \in DOMAIN pods : ~pods[j].deleting } }

\* The bootstrap List has returned its items (and fn has been called on them).
Bootstrapped == pc \notin {"idle", "list"}

\* C1: the set given to the first call of fn holds exactly the listed pods
\* that have no deletion timestamp: each of them is in it, no listed pod with
\* a deletion timestamp is in it, and nothing else is.
C1_FirstCallbackIsListedAlive ==
    pc = "fnBoot" =>
        /\ \A i \in DOMAIN pods :
              ~pods[i].deleting => pods[i].name \in DOMAIN firstCb
        /\ \A i \in DOMAIN pods :
              pods[i].deleting => pods[i].name \notin DOMAIN firstCb
        /\ DOMAIN firstCb \subseteq { pods[i].name : i \in DOMAIN pods }

C1_Witness ==
    /\ pc = "fnBoot"
    /\ nCallbacks = 1
    /\ \E i, j \in DOMAIN pods : pods[i].deleting /\ ~pods[j].deleting

\* C2: once the List has succeeded, fn has been called exactly once, with the
\* initial map (empty or not), by the time the first session is opened; before
\* that call no session has been opened and no event has been consumed.
C2_CallbackOnceBeforeFirstSession ==
    /\ ~Bootstrapped => nCallbacks = 0 /\ sessions = 0 /\ lastEv = NoEvent
    /\ (Bootstrapped /\ sessions = 0) =>
          /\ nCallbacks = 1
          /\ cbArg = firstCb
          /\ lastEv = NoEvent
    /\ pc = "fnBoot" => DOMAIN firstCb = ListedAlive
    /\ sessions > 0 => nCallbacks >= 1

C2_Witness ==
    /\ pc = "select"
    /\ sessions = 1
    /\ nCallbacks = 1
    /\ DOMAIN firstCb = {}

\* C3: the set given to every call of fn is the bootstrap set with each ADDED
\* consumed so far put in and each DELETED consumed so far taken out, in the
\* order consumed; the call after an ADDED for p holds p, the call after a
\* DELETED for p does not.
C3_CallbackIsBootstrapPlusEvents ==
    /\ nCallbacks >= 1 => DOMAIN cbArg = applied
    /\ (pc = "fnEvent" /\ lastEv.type = "ADDED") => lastEv.obj \in DOMAIN cbArg
    /\ (pc = "fnEvent" /\ lastEv.type = "DELETED") =>
          lastEv.obj \notin DOMAIN cbArg

C3_Witness ==
    /\ pc = "fnEvent"
    /\ lastEv.type = "DELETED"
    /\ lastEv.obj \in DOMAIN firstCb
    /\ DOMAIN cbArg # {}
    /\ DOMAIN cbArg \cap DOMAIN firstCb = {}

\* C4: consuming an ADDED for n right after an ADDED for n leaves the map as
\* the first one left it, with exactly one entry for n.
C4_AddedTwiceIsAddedOnce ==
    [][(/\ pc = "select"
        /\ pc' = "fnEvent"
        /\ lastEv'.type = "ADDED"
        /\ lastEv = lastEv')
       => /\ collectorMap' = collectorMap
          /\ lastEv'.obj \in DOMAIN collectorMap'
          /\ Cardinality({ k \in DOMAIN collectorMap' :
                             collectorMap'[k].Name = lastEv'.obj }) = 1]_vars

C4_Witness ==
    /\ pc = "fnEvent"
    /\ lastEv.type = "ADDED"
    /\ repeated
    /\ lastEv.obj \in DOMAIN cbArg

\* C5: once Close() has been called during Watch, the next wake-up of
\* runWatch's select returns, and Watch returns nil: no further event is
\* consumed and no further session is opened first. (Stated for the wake-ups
\* at which the session's ctx is not done and an ADDED event is ready, so
\* that the close signal competes with that event alone.)
C5_CloseStopsAtNextWakeup ==
    [][(/\ closed
        /\ closeAt = "during"
        /\ ~ctxDone
        /\ queue # <<>>
        /\ Head(queue).type = "ADDED"
        /\ pc = "select"
        /\ pc' # pc)
       => (pc' = "returned" /\ result' = "nil")]_vars

\* C6: after the ctx was cancelled during Watch, with Close() never called,
\* Watch returns nil: the process is still there for Watch to return in, and
\* what Watch returned is nil.
C6_CancelLeadsToNilReturn ==
    (cancelAt = "during" /\ ~closed) =>
        /\ proc = "running"
        /\ pc = "returned" => result = "nil"

\* C7: when runWatch finds the channel closed, with Close() not called and
\* the ctx not cancelled, Watch does not return: it goes on to restartWatch,
\* which opens the next session.
C7_ClosedChannelReopens ==
    [][(/\ pc = "select"
        /\ chanClosed
        /\ queue = <<>>
        /\ ~closed
        /\ ~ctxCancelled
        /\ pc' # pc)
       => (pc' = "open" /\ result' = "none" /\ proc' = "running")]_vars

C7_Witness ==
    /\ pc = "select"
    /\ sessions = 2
    /\ endedBy = "chanClosed"
    /\ ~closed
    /\ ~ctxCancelled

\* C8: a session that ended by its timeout left no event unread on its
\* channel: every ADDED or DELETED event queued before the expiry was applied
\* and reported.
\* (Stated for the sessions that end with Close() not called and the caller's
\* ctx not cancelled, so that the timeout alone ends them.)
C8_TimeoutDropsNothing ==
    (endedBy = "timeout" /\ ~closed /\ ~ctxCancelled) => dropped = 0

\* C9: Close() can be called any number of times: the process never panics.
C9_CloseNeverPanics == proc # "panicked"

\* C10: when the bootstrap List fails, the process goes on, fn is not called
\* and Watch returns an error.
C10_ListErrorIsReturned ==
    listErr =>
        /\ proc = "running"
        /\ nCallbacks = 0
        /\ pc = "returned" => result = "error"

\* C11: one failure to establish a watch subscription does not end discovery:
\* with Close() not called and no ctx done, the step Watch takes after
\* restartWatch was called is not a return.
C11_FailedSubscriptionRetries ==
    [][(/\ pc = "open"
        /\ ~closed
        /\ ~ctxDone
        /\ pc' # pc)
       => (pc' # "returned" /\ result' = "none")]_vars

\* C12: what fn is given is a snapshot: the value a callee kept from the first
\* call still reads as it did at that call, whatever events came after.
C12_CallbackArgIsSnapshot ==
    nCallbacks >= 1 => RetainedFirstArg = firstCb

\* C13: a call of fn that fails does not stop the watch loop: the process is
\* not taken down by it.
C13_CallbackFailureIsContained == proc # "fnPanicked"

\* C14: the membership is not stale after a reconnect: once the session that
\* follows a gap is established and its channel drained, no pod that went
\* from the cluster is still in the map. (Stated for a first session that
\* ended on a closed and drained channel, so that no event was left unread.)
C14_ReconnectLosesNoRemoval ==
    (/\ pc = "select"
     /\ sessions = 2
     /\ endedBy = "chanClosed"
     /\ dropped = 0
     /\ queue = <<>>)
    => DOMAIN collectorMap \subseteq cluster

\* runWatch takes a pod event off the channel in this step.
TakesPodEvent ==
    /\ pc = "select"
    /\ queue # <<>>
    /\ IsPod(Head(queue))
    /\ queue' = Tail(queue)
    /\ pc' \notin {"open", "returned"}

\* C15: as stated, a MODIFIED event is ignored: taking it neither changes the
\* map nor calls fn.
C15_ModifiedIsIgnored ==
    [][(TakesPodEvent /\ Head(queue).type = "MODIFIED")
       => (collectorMap' = collectorMap /\ nCallbacks' = nCallbacks)]_vars

\* C15, amended: a MODIFIED event leaves the map as it is, and fn is called
\* with that unchanged map; fn is called once when the bootstrap List has
\* returned and once for every pod event taken (ADDED, MODIFIED or DELETED),
\* and at no other step.
C15_ModifiedKeepsMapAndCallsFn ==
    [][/\ TakesPodEvent =>
            /\ nCallbacks' = nCallbacks + 1
            /\ Head(queue).type = "MODIFIED" =>
                  (collectorMap' = collectorMap /\ cbArg' = collectorMap)
       /\ nCallbacks' # nCallbacks =>
            /\ nCallbacks' = nCallbacks + 1
            /\ pc = "list" \/ TakesPodEvent]_vars

C15_Witness ==
    /\ pc = "fnEvent"
    /\ lastEv.type = "MODIFIED"
    /\ lastEv.obj \in DOMAIN cbArg
    /\ nCallbacks = 2

\* C16: whenever runWatch waits at its select, the gauge is the number of
\* entries of the map: it is set to that number before every wait, not added
\* to.
C16_GaugeIsMapSizeAtSelect ==
    pc = "select" => gauge = Cardinality(DOMAIN collectorMap)

C16_Witness ==
    /\ pc = "select"
    /\ sessions = 2
    /\ Cardinality(DOMAIN firstCb) = 2
    /\ lastEv.type = "DELETED"
    /\ gauge = 1

\* C17: at most one watch session is active at any time: a session is opened
\* only when runWatch has returned from every session opened before, and a
\* session is active exactly while Watch stands in runWatch, so the events
\* taken at any moment are those of one session's channel.
C17_OneSessionAtATime ==
    /\ sessions - ended \in {0, 1}
    /\ sessions - ended = 1 <=> pc \in {"select", "fnEvent"}

C17_Witness ==
    /\ sessions = 2
    /\ ended = 1
    /\ pc = "fnEvent"
    /\ endedBy = "timeout"

\* The answers for the versions of the groups named monitoring.coreos.com,
\* as pairs of the group's and the version's place in the lists.
PrometheusVersions ==
    { p \in (DOMAIN discovery.Groups) \X (DOMAIN VersionOrder) :
        /\ discovery.Groups[p[1]].Name = "monitoring.coreos.com"
        /\ p[2] \in DOMAIN discovery.Groups[p[1]].Versions }

\* The kinds found across all of them.
PrometheusKinds ==
    UNION { discovery.Groups[p[1]].Versions[p[2]].kinds :
              p \in PrometheusVersions }

\* Those for which ServerResourcesForGroupVersion fails.
PrometheusFailing ==
    { p \in PrometheusVersions : discovery.Groups[p[1]].Versions[p[2]].err }

\* C18: PrometheusCRsAvailability returns Available exactly when ServiceMonitor
\* and PodMonitor are both found across the resource lists of all versions of
\* the group monitoring.coreos.com; with one of them, none, or no such group
\* it returns NotAvailable and no error; when ServerGroups or a resource
\* listing it asks for fails it returns NotAvailable and that error.
C18_PrometheusAvailableIffBothKinds ==
    prom # NotCalled =>
        IF discovery.err
        THEN prom = [avail |-> "NotAvailable", err |-> GroupsErr]
        ELSE IF PrometheusFailing # {}
        THEN /\ prom.avail = "NotAvailable"
             /\ prom.err.op = "ServerResourcesForGroupVersion"
             /\ \E p \in PrometheusFailing :
                   /\ prom.err.at = p[2]
                   /\ \A q \in PrometheusFailing : q[2] >= p[2]
        ELSE /\ prom.err = NoErr
             /\ prom.avail \in Availabilities
             /\ prom.avail = "Available" <=>
                   {"ServiceMonitor", "PodMonitor"} \subseteq PrometheusKinds

\* Available from kinds that stand in two different versions, next to a
\* group of another name.
C18_Witness ==
    /\ prom = [avail |-> "Available", err |-> NoErr]
    /\ Len(discovery.Groups) = 2
    /\ \E p \in PrometheusVersions :
          discovery.Groups[p[1]].Versions[p[2]].kinds = {"ServiceMonitor"}
    /\ \E p \in PrometheusVersions :
          discovery.Groups[p[1]].Versions[p[2]].kinds = {"PodMonitor", "Probe"}

\* The first detector, in the order of the calls, whose error ApplyAutoDetect
\* returns; one more than the number of detectors when there is none.
FirstReturnedError ==
    LET failing ==
          { k \in DOMAIN DetectorOrder :
              /\ detectors[DetectorOrder[k]].err
              /\ DetectorOrder[k] \notin
                   {"RBACPermissions", "CertManagerAvailability"} }
    IN  IF failing = {} THEN Len(DetectorOrder) + 1
        ELSE CHOOSE k \in failing : \A j \in failing : k <= j

\* C19: ApplyAutoDetect calls the detectors in the order routes, Prometheus,
\* RBAC, cert-manager, TargetAllocator, Collector; the first error of routes,
\* Prometheus, TargetAllocator or Collector is returned at once, the fields of
\* that detector and of the later ones staying as they were; an error of RBAC
\* or cert-manager is not returned and the availability returned with it is
\* stored; with no such failure it returns nil and every field holds what its
\* detector returned.
C19_ApplyStoresUntilFirstFatalError ==
    applyRet # "none" =>
        /\ applyRet = IF FirstReturnedError > Len(DetectorOrder) THEN "nil"
                      ELSE DetectorOrder[FirstReturnedError]
        /\ \A k \in DOMAIN DetectorOrder :
              config[FieldOf(DetectorOrder[k])] =
                  IF k < FirstReturnedError
                  THEN detectors[DetectorOrder[k]].avail
                  ELSE configBefore[FieldOf(DetectorOrder[k])]
        /\ DetectorOrder =
              <<"OpenShiftRoutesAvailability", "PrometheusCRsAvailability",
                "RBACPermissions", "CertManagerAvailability",
                "TargetAllocatorAvailability", "CollectorAvailability">>

\* RBAC fails with Available and is stored; TargetAllocator fails and is
\* returned; Collector is not asked.
C19_Witness ==
    /\ applyRet = "TargetAllocatorAvailability"
    /\ configBefore = NewConfig
    /\ detectors["RBACPermissions"] = [avail |-> "Available", err |-> TRUE]
    /\ config["CreateRBACPermissions"] = "Available"
    /\ detectors["TargetAllocatorAvailability"].avail = "Available"
    /\ config["TargetAllocatorAvailability"] = "NotAvailable"
    /\ detectors["CollectorAvailability"].avail = "Available"
    /\ config["CollectorAvailability"] = "NotAvailable"

\* C20: the close signal stops runWatch at once: when Close() has been called
\* during Watch and runWatch wakes up at its select, no event is applied to
\* the map and fn is not called again, whatever events are ready at that
\* wake-up.
C20_NothingAppliedAfterClose ==
    [][(/\ closed
        /\ closeAt = "during"
        /\ pc = "select")
       => (collectorMap' = collectorMap /\ nCallbacks' = nCallbacks)]_vars

----------------------------------------------------------------------------
\* The outer loop and the session

\* C21: Watch returns, and returns nil, only from a session that saw the
\* close signal or from a restartWatch whose Pods.Watch failed; a session
\* that ends on a done ctx, a closed channel or a payload that is no pod
\* hands over to the next restartWatch with Watch still running.
C21_LoopStopsOnCloseOrFailedOpen ==
    [][/\ (pc # "returned" /\ pc' = "returned")
          => /\ result' = "nil"
             /\ \/ pc = "select" /\ closed /\ ended' = ended + 1
                \/ pc = "open" /\ ended' = ended
       /\ (pc = "select" /\ ended' = ended + 1 /\ pc' # "returned")
          => /\ pc' = "open"
             /\ result' = "none"
             /\ \/ ctxDone
                \/ chanClosed /\ queue = <<>>
                \/ queue # <<>> /\ ~IsPod(Head(queue))
       /\ (pc = "select" /\ ended' = ended + 1 /\ ~closed)
          => pc' = "open"]_vars

\* A second session is open after the first ended on a payload that is no
\* pod, with no Close called.
C21_Witness ==
    /\ pc = "select"
    /\ sessions = 2
    /\ ended = 1
    /\ endedBy = "notPod"
    /\ ~closed
    /\ result = "none"

\* C22: when runWatch takes an event whose payload is no pod, the session
\* ends and the loop goes on to the next restartWatch with Watch still
\* running; the map is as before, fn is not called, and the events the
\* channel still held are left unread. Where only the event is ready, the
\* taking step is the one that moves Watch or shortens the channel; where
\* more cases are ready, it is told by the reason of the session's end.
C22_NonPodEndsSessionQuietly ==
    [][(/\ pc = "select"
        /\ queue # <<>>
        /\ Head(queue).obj \notin Names
        /\ \/ /\ ~closed
              /\ ~ctxDone
              /\ (pc' # pc \/ Len(queue') < Len(queue))
           \/ ended' = ended + 1 /\ endedBy' = "notPod")
       => /\ pc' = "open"
          /\ result' = "none"
          /\ ended' = ended + 1
          /\ endedBy' = "notPod"
          /\ collectorMap' = collectorMap
          /\ nCallbacks' = nCallbacks
          /\ cbArg' = cbArg
          /\ applied' = applied
          /\ queue' = <<>>
          /\ dropped' = Changes(Tail(queue))]_vars

\* A session ended on a payload that is no pod while a pod event was still
\* on its channel: fn has run for the bootstrap only and the map is the
\* bootstrap's.
C22_Witness ==
    /\ pc = "open"
    /\ sessions = 1
    /\ endedBy = "notPod"
    /\ dropped = 1
    /\ nCallbacks = 1
    /\ collectorMap = firstCb
    /\ lastEv.obj = Status

\* C23: the channel is a queue: a step that changes it appends one event
\* at its back, takes the one at its front, or ends the session. Taking a
\* pod event enters fn with the map as that event left it, and until fn
\* returns Watch does nothing else: it takes no event, ends no session,
\* does not return and does not touch the map, whatever is signalled
\* meanwhile; fn returns to the select.
C23_EventsInOrderCallbackNotPreempted ==
    [][/\ (queue' # queue)
          => \/ /\ Len(queue') = Len(queue) + 1
                /\ SubSeq(queue', 1, Len(queue)) = queue
             \/ /\ pc = "select"
                /\ queue # <<>>
                /\ queue' = Tail(queue)
                /\ lastEv' = Head(queue)
             \/ /\ pc = "select"
                /\ queue' = <<>>
                /\ ended' = ended + 1
       /\ (pc = "select" /\ queue # <<>> /\ queue' = Tail(queue)
             /\ ended' = ended)
          => /\ pc' = "fnEvent"
             /\ nCallbacks' = nCallbacks + 1
             /\ cbArg' = collectorMap'
             /\ collectorMap' = ApplyEvent(collectorMap, Head(queue))
       /\ (pc = "fnEvent")
          => /\ pc' \in {"fnEvent", "select"}
             /\ collectorMap' = collectorMap
             /\ nCallbacks' = nCallbacks
             /\ cbArg' = cbArg
             /\ lastEv' = lastEv
             /\ ended' = ended
             /\ result' = result
             /\ Len(queue') >= Len(queue)]_vars

\* fn runs for an event while Close has been called, the caller's ctx is
\* cancelled and the next event waits on the channel.
C23_Witness ==
    /\ pc = "fnEvent"
    /\ proc = "running"
    /\ closed
    /\ ctxCancelled
    /\ queue # <<>>
    /\ cbArg = collectorMap
    /\ nCallbacks = 2

\* C24: Watch lists once: it comes to the List call from its entry only,
\* leaves it for the first call of fn, and the listing and what was built
\* from it are written nowhere else. No step that ends a session, that
\* opens one, or that Watch takes between the two changes the map.
C24_ListOnceMapKeptAcrossSessions ==
    [][/\ (pc # "list" /\ pc' = "list")
          => pc = "idle" /\ sessions = 0 /\ nCallbacks = 0
       /\ (pc = "list" /\ pc' # "list") => pc' = "fnBoot"
       /\ (pods' # pods \/ firstCb' # firstCb)
          => pc \in {"list", "fnBoot"} /\ sessions = 0
       /\ (pc = "open" \/ ended' # ended \/ sessions' # sessions)
          => collectorMap' = collectorMap]_vars

\* The second session reads its channel with a map that is not empty and
\* is not the one the bootstrap built: it is the map the first session left.
C24_Witness ==
    /\ pc = "select"
    /\ sessions = 2
    /\ ended = 1
    /\ collectorMap # EmptyMap
    /\ collectorMap # firstCb
    /\ DOMAIN collectorMap = applied
    /\ nCallbacks = 2

\* C25: Watch has a result exactly when it has returned, and that result
\* is nil whether it returned on the close signal or because no watch
\* could be opened: no state holds a non-nil error as the result of Watch,
\* and a process that exited on a failed List has no result at all.
C25_WatchReturnsNilOnly ==
    /\ result \in {"none", "nil"}
    /\ (pc = "returned") <=> (result = "nil")
    /\ (proc = "exited") => (result = "none")

\* Watch has returned nil with no Close ever called: the first session
\* ended and the next watch could not be opened.
C25_Witness ==
    /\ pc = "returned"
    /\ result = "nil"
    /\ ~closed
    /\ sessions = 1
    /\ ended = 1
    /\ endedBy # "closed"

\* The names of the Collectors held in m.
CollectorNames(m) == { m[k].Name : k \in DOMAIN m }

\* C26: every entry of the map holds, under key k, the Collector named k:
\* the names of the Collectors are the keys, one Collector to a name. The
\* same holds of the map fn was last given.
C26_KeyIsCollectorName ==
    /\ \A k \in DOMAIN collectorMap : collectorMap[k].Name = k
    /\ CollectorNames(collectorMap) = DOMAIN collectorMap
    /\ Cardinality(CollectorNames(collectorMap))
         = Cardinality(DOMAIN collectorMap)
    /\ \A k \in DOMAIN cbArg : cbArg[k].Name = k

\* fn runs for an ADDED event that brought the map to two entries, one
\* from the bootstrap listing and one from the event.
C26_Witness ==
    /\ pc = "fnEvent"
    /\ lastEv.type = "ADDED"
    /\ Cardinality(DOMAIN firstCb) = 1
    /\ Cardinality(DOMAIN collectorMap) = 2
    /\ lastEv.obj \notin DOMAIN firstCb

\* C27: with Close called before Watch has opened its first session, Watch
\* goes its way as without it: from its entry to the List, from the List
\* to the first fn, from there to restartWatch, and from there to the
\* select of the first session unless Pods.Watch fails. It enters that
\* session having called fn once, with the map of the bootstrap. The close
\* signal is seen at a select only, with a session opened and fn called,
\* and Watch then returns nil; at a select where nothing but the close
\* signal is ready, that return is the step Watch takes.
C27_CloseBeforeWatchStillBootstraps ==
    [][/\ (closed /\ sessions = 0 /\ pc' # pc)
          => /\ ended' = ended
             /\ \/ pc = "idle" /\ pc' = "list"
                \/ pc = "list" /\ pc' = "fnBoot" /\ nCallbacks' = 1
                \/ pc = "fnBoot" /\ pc' = "open"
                \/ pc = "open" /\ pc' = "select" /\ sessions' = 1
                \/ pc = "open" /\ pc' = "returned" /\ result' = "nil"
       /\ (closed /\ pc = "open" /\ pc' = "select" /\ sessions' = 1)
          => /\ nCallbacks = 1
             /\ cbArg = firstCb
             /\ collectorMap = firstCb
       /\ (ended' = ended + 1 /\ endedBy' = "closed")
          => /\ pc = "select"
             /\ sessions >= 1
             /\ nCallbacks >= 1
             /\ pc' = "returned"
             /\ result' = "nil"
       /\ (closed /\ pc = "select" /\ queue = <<>> /\ ~chanClosed
             /\ ~ctxDone /\ pc' # pc)
          => /\ pc' = "returned"
             /\ result' = "nil"
             /\ endedBy' = "closed"]_vars

\* Close was called before Watch; Watch listed a pod, called fn once with
\* it, opened one session, saw the close signal there and returned nil.
C27_Witness ==
    /\ closeAt = "before"
    /\ pc = "returned"
    /\ result = "nil"
    /\ endedBy = "closed"
    /\ sessions = 1
    /\ ended = 1
    /\ nCallbacks = 1
    /\ firstCb # EmptyMap
    /\ cbArg = firstCb

====
